---- MODULE Spec2Model ----
(***************************************************************************)
(* State-machine model of llmi: the event bus (event.rs), the control loop *)
(* (app.rs) and the streaming completion request (llm.rs).                 *)
(*                                                                         *)
(* Text is a sequence of one-character strings, so that a response body    *)
(* can be cut into chunks at every position.  JSON is written in an        *)
(* abridged wire form (see to_wire): the fixed keys of the provider's      *)
(* record are elided, the structure that serde decides on is kept.         *)
(***************************************************************************)
EXTENDS Integers, Sequences, FiniteSets, TLC

\* ------------------------------------------------------------------ bounds
MaxTasks == 2      \* prompts submitted (one spawned invocation each)
MaxKeys  == 4      \* terminal events the input source delivers
MaxTicks == 1      \* firings of the 250 ms interval
MaxLines == 3      \* lines of a response body (DecodeSpec)
MaxNotices == 2    \* Notification events published (NoticeSpec)

Tasks == 1..MaxTasks

\* Option<T>: None, or Some(x).
None == <<>>
Some(x) == <<x>>
unwrap(o) == o[1]

Min(S) == CHOOSE x \in S : \A y \in S : x <= y

RECURSIVE Concat(_)
Concat(ss) ==
    IF ss = <<>> THEN <<>> ELSE Head(ss) \o Concat(Tail(ss))

\* ------------------------------------------------------- llm.rs data model
\* Message { role: Option<String>, content: Option<String> }
Message(role, content) == [role |-> role, content |-> content]
new(role, content) == Message(Some(role), Some(content))
user(content) == new("user", content)
\* An assistant turn made without its text.
assistant_absent(content) == Message(Some("assistant"), None)
assistant(content) == new("assistant", content)

\* Choice { index, message: Option<Message>, delta: Option<Message>, .. }
Choice(message, delta) == [message |-> message, delta |-> delta]

\* LLMResponse { .., choices: Vec<Choice>, .. }
LLMResponse(choices) == [choices |-> choices]

\* The record values the bodies of this model are built from.
TextHi == <<"H", "i">>
TextBang == <<"!">>
DeltaHi == Choice(None, Some(Message(None, Some(TextHi))))
DeltaBang == Choice(None, Some(Message(None, Some(TextBang))))
DeltaEmpty == Choice(None, Some(Message(None, None)))     \* "delta":{}
DeltaBlank == Choice(None, Some(Message(None, Some(<<>>))))   \* "content":""
FullHi == Choice(Some(Message(None, Some(TextHi))), Some(Message(None, Some(TextBang))))
Neither == Choice(None, None)                             \* no message, no delta
ChoiceSet == {DeltaHi, DeltaBang, DeltaEmpty, DeltaBlank, FullHi, Neither}
Records ==
    {LLMResponse(<<>>)}
        \cup {LLMResponse(<<c>>) : c \in ChoiceSet}
        \cup {LLMResponse(<<c, d>>) : c \in ChoiceSet, d \in ChoiceSet}

\* LLMResponse::extract_message: choices[0].message if present, else
\* choices[0].delta.unwrap().  The result is the Option that is unwrapped:
\* None is the panic of that unwrap.
extract_message(data) ==
    IF data.choices[1].message # None
    THEN data.choices[1].message
    ELSE data.choices[1].delta

\* -------------------------------------------------------------- wire text
\* Abridged JSON of a record: { choice , choice ... } where a choice is
\* c [m msg] [d msg] and a msg is empty (no content) or 'text'.
msg_wire(m) ==
    IF m.content = None THEN <<>> ELSE <<"'">> \o unwrap(m.content) \o <<"'">>

choice_wire(c) ==
    <<"c">>
        \o (IF c.message = None THEN <<>> ELSE <<"m">> \o msg_wire(unwrap(c.message)))
        \o (IF c.delta = None THEN <<>> ELSE <<"d">> \o msg_wire(unwrap(c.delta)))

RECURSIVE choices_wire(_)
choices_wire(cs) ==
    IF cs = <<>> THEN <<>>
    ELSE IF Len(cs) = 1 THEN choice_wire(cs[1])
    ELSE choice_wire(cs[1]) \o <<",">> \o choices_wire(Tail(cs))

to_wire(data) == <<"{">> \o choices_wire(data.choices) \o <<"}">>

Wire == {<<to_wire(r), r>> : r \in Records}

\* serde_json::from_str::<LLMResponse>(payload): Ok(data) exactly when the
\* whole payload is the text of a record.
from_str(payload) ==
    IF \E w \in Wire : w[1] = payload
    THEN [ok |-> TRUE, data |-> (CHOOSE w \in Wire : w[1] = payload)[2]]
    ELSE [ok |-> FALSE, data |-> LLMResponse(<<>>)]

\* ------------------------------------------------------ regex data:\s(.*)
Marker == <<"d", "a", "t", "a", ":">>
DoneText == <<"[", "D", "O", "N", "E", "]">>
Whitespace == {" ", "\n", "\t", "\r"}

\* "data:" starts at j and a whitespace character follows it.
is_match_at(s, j) ==
    /\ j + 5 <= Len(s)
    /\ \A i \in 1..5 : s[j + i - 1] = Marker[i]
    /\ s[j + 5] \in Whitespace

\* One past the end of the run of non-newline characters starting at k.
line_end(s, k) ==
    LET stops == {e \in k..Len(s) : s[e] = "\n"}
    IN  IF stops = {} THEN Len(s) + 1 ELSE Min(stops)

\* Regex::captures_iter: the payloads of the successive non-overlapping
\* matches, leftmost first, searching on from the end of each match.
RECURSIVE captures_iter(_, _)
captures_iter(s, i) ==
    LET starts == {j \in i..Len(s) : is_match_at(s, j)}
    IN  IF starts = {} THEN <<>>
        ELSE LET k == Min(starts) + 6
                 e == line_end(s, k)
             IN  <<SubSeq(s, k, e - 1)>> \o captures_iter(s, e)

\* ------------------------------------------------------- event.rs Event
TermEvent(ev) == [type |-> "TermEvent", arg |-> Some(ev)]
LLMEventStart == [type |-> "LLMEventStart", arg |-> None]
LLMEventDelta(msg) == [type |-> "LLMEventDelta", arg |-> Some(msg)]
LLMEventEnd == [type |-> "LLMEventEnd", arg |-> None]
TickEvent == [type |-> "TickEvent", arg |-> None]
Notification(text) == [type |-> "Notification", arg |-> Some(text)]

\* Terminal events: the three keys the input source delivers.
KeyCtrlC == [tag |-> "Key", code |-> "c", modifiers |-> "CONTROL", kind |-> "Press"]
KeyCtrlJ == [tag |-> "Key", code |-> "j", modifiers |-> "CONTROL", kind |-> "Press"]
KeyA == [tag |-> "Key", code |-> "a", modifiers |-> "NONE", kind |-> "Press"]
TermEvents == {KeyCtrlC, KeyCtrlJ, KeyA}

\* ----------------------------------------- llm.rs request: one body chunk
NoFault == "none"

\* The body of `for caps in re.captures_iter(str)` for one payload: the
\* events it sends and the panic it ends in, if any.
handle_payload(payload) ==
    IF payload = DoneText
    THEN [events |-> <<LLMEventEnd>>, fault |-> NoFault]
    ELSE LET r == from_str(payload)
         IN  IF ~r.ok
             THEN [events |-> <<>>, fault |-> NoFault]
             ELSE IF ~(Len(r.data.choices) > 0)
             THEN [events |-> <<>>, fault |-> "assert_choices"]
             ELSE IF extract_message(r.data) = None
             THEN [events |-> <<>>, fault |-> "unwrap_delta"]
             ELSE [events |-> <<LLMEventDelta(unwrap(extract_message(r.data)))>>,
                   fault |-> NoFault]

\* A scan of the payloads that stops at the terminator.
RECURSIVE handle_captures_until_done(_)
handle_captures_until_done(payloads) ==
    IF payloads = <<>>
    THEN [events |-> <<>>, fault |-> NoFault]
    ELSE LET one == handle_payload(Head(payloads))
         IN  IF one.fault # NoFault \/ Head(payloads) = DoneText
             THEN one
             ELSE LET more == handle_captures_until_done(Tail(payloads))
                  IN  [events |-> one.events \o more.events, fault |-> more.fault]

RECURSIVE handle_captures(_)
handle_captures(payloads) ==
    IF payloads = <<>>
    THEN [events |-> <<>>, fault |-> NoFault]
    ELSE LET one == handle_payload(Head(payloads))
         IN  IF one.fault # NoFault
             THEN one
             ELSE LET more == handle_captures(Tail(payloads))
                  IN  [events |-> one.events \o more.events, fault |-> more.fault]

\* The body of `while let Some(bytes) = resp.chunk()` for one chunk.
handle_chunk(bytes) == handle_captures(captures_iter(bytes, 1))

\* ------------------------------------------------------------------ state
VARIABLES
    chan,             \* event.rs: the unbounded channel, oldest first
    nPublished,       \* history: number of sends on the channel
    nDelivered,       \* history: number of events next() has returned
    nErr,             \* history: number of times next() has returned the error
    bgAlive,          \* event.rs: the background producer is in its loop
    nKeys,            \* input source: terminal events delivered so far
    nTicks,           \* interval: ticks fired so far
    nSubmit,          \* input source: Ctrl-J keys delivered so far
    quit,             \* App.quit
    last_key,         \* App.last_key
    input,            \* App.input (the text of the TextArea)
    messages,         \* App.messages
    notification,     \* App.notification
    current_message,  \* App.current_message
    heard,            \* history: the deltas consumed since the last LLMEventStart
    llmLock,          \* App.llm: the task holding the Mutex, 0 when free
    pc,               \* per spawned task: where it is in the closure / request
    prompt,           \* per task: the prompt moved into the closure
    status,           \* per task, history: resp.error_for_status(): "ok" or "error"
    body,             \* per task, history: the whole response body
    rest,             \* per task: the bytes of the body not yet received
    polled,           \* per task, history: resp.chunk() has been called
    single,           \* per task, history: chunk() has returned exactly one chunk
    history,          \* per task, history: App.messages before the prompt was pushed
    outgoing,         \* per task, history: "messages" of the request body sent
    order,            \* history: the task of each request event, in send order
    sent,             \* per task, history: the events it has sent
    fault             \* per task, history: the panic that ended it

busVars == <<chan, nPublished, nDelivered, nErr>>
bgVars == <<bgAlive, nKeys, nTicks, nSubmit>>
appVars == <<quit, last_key, input, messages, notification, current_message, heard>>
taskVars ==
    <<llmLock, pc, prompt, status, body, rest, polled, sent, fault,
      single, history, outgoing, order>>
vars == <<busVars, bgVars, appVars, taskVars>>

Init ==
    /\ chan = <<>>
    /\ nPublished = 0
    /\ nDelivered = 0
    /\ nErr = 0
    /\ bgAlive = TRUE
    /\ nKeys = 0
    /\ nTicks = 0
    /\ nSubmit = 0
    /\ quit = FALSE
    /\ last_key = None
    /\ input = <<>>
    /\ messages = <<>>
    /\ notification = None
    /\ current_message = None
    /\ heard = None
    /\ llmLock = 0
    /\ pc = [t \in Tasks |-> "idle"]
    /\ prompt = [t \in Tasks |-> <<>>]
    /\ status = [t \in Tasks |-> "none"]
    /\ body = [t \in Tasks |-> <<>>]
    /\ rest = [t \in Tasks |-> <<>>]
    /\ polled = [t \in Tasks |-> FALSE]
    /\ sent = [t \in Tasks |-> <<>>]
    /\ fault = [t \in Tasks |-> NoFault]
    /\ single = [t \in Tasks |-> FALSE]
    /\ history = [t \in Tasks |-> <<>>]
    /\ outgoing = [t \in Tasks |-> <<>>]
    /\ order = <<>>

\* ------------------------------------------------- event.rs: the channel
\* A channel of capacity 2 that drops what does not fit.
send_lossy(q, item) == IF Len(q) >= 2 THEN q ELSE Append(q, item)

\* UnboundedSender::send: the item joins the queue behind the others.
send(q, item) == Append(q, item)

\* UnboundedReceiver::recv takes the oldest item.
recv_item(q) == Head(q)
recv_rest(q) == Tail(q)

RECURSIVE send_all(_, _, _)
send_all(q, events, n) ==
    IF events = <<>> THEN q
    ELSE send_all(send(q, [ev |-> Head(events), seq |-> n + 1]), Tail(events), n + 1)

\* One sender publishes `events`, in order.
Publish(events) ==
    /\ chan' = send_all(chan, events, nPublished)
    /\ nPublished' = nPublished + Len(events)

\* EventManager keeps its own sender `tx` beside the receiver.
manager_holds_tx == TRUE

\* A task owns a clone of the sender from its spawn to the end of its closure.
LiveTask(t) == pc[t] \notin {"idle", "done", "panicked"}

\* The number of senders of the channel that have not been dropped.
senders ==
    (IF manager_holds_tx THEN 1 ELSE 0)
        + (IF bgAlive THEN 1 ELSE 0)
        + Cardinality({t \in Tasks : LiveTask(t)})

\* The model follows the system for as long as App::run is in its loop.
Running == ~quit

\* ----------------------------------- event.rs: the background producer
producer_tick ==
    /\ Running /\ bgAlive
    /\ nTicks < MaxTicks
    /\ Publish(<<TickEvent>>)
    /\ nTicks' = nTicks + 1
    /\ UNCHANGED <<nDelivered, nErr, bgAlive, nKeys, nSubmit, appVars, taskVars>>

producer_term_event(ev) ==
    /\ Running /\ bgAlive
    /\ nKeys < MaxKeys
    /\ ev = KeyCtrlJ => nSubmit < MaxTasks
    /\ Publish(<<TermEvent(ev)>>)
    /\ nKeys' = nKeys + 1
    /\ nSubmit' = IF ev = KeyCtrlJ THEN nSubmit + 1 ELSE nSubmit
    /\ UNCHANGED <<nDelivered, nErr, bgAlive, nTicks, appVars, taskVars>>

\* The input stream yields Some(Err(e)) or None: the loop breaks, tx2 drops.
producer_break ==
    /\ Running /\ bgAlive
    /\ bgAlive' = FALSE
    /\ UNCHANGED <<busVars, nKeys, nTicks, nSubmit, appVars, taskVars>>

\* ------------------------------------------------------ app.rs: the App
\* TextArea::input: a plain character key is inserted at the end of the text.
textarea_input(text, kev) ==
    IF kev.modifiers = "NONE" THEN Append(text, kev.code) ELSE text

\* App::clear: select_all, then cut.
clear(text) == <<>>

\* The task the next tokio::spawn creates.
next_task == Min({t \in Tasks : pc[t] = "idle"})

\* A process_prompt that submits whatever the input holds.
process_prompt_unchecked(text) ==
    /\ messages' = Append(messages, user(text))
    /\ pc' = [pc EXCEPT ![next_task] = "waitlock"]
    /\ prompt' = [prompt EXCEPT ![next_task] = text]
    /\ history' = [history EXCEPT ![next_task] = messages]
    /\ input' = clear(input)
    /\ UNCHANGED <<quit, last_key, notification, current_message, heard>>
    /\ UNCHANGED <<llmLock, status, body, rest, polled, sent, fault>>
    /\ UNCHANGED <<single, outgoing, order>>

\* App::process_prompt(prompt)
process_prompt(text) ==
    IF text = <<>>
    THEN UNCHANGED <<appVars, taskVars>>
    ELSE /\ messages' = Append(messages, user(text))
         /\ pc' = [pc EXCEPT ![next_task] = "waitlock"]
         /\ prompt' = [prompt EXCEPT ![next_task] = text]
         /\ history' = [history EXCEPT ![next_task] = messages]
         /\ input' = clear(input)
         /\ UNCHANGED <<quit, last_key, notification, current_message, heard>>
         /\ UNCHANGED <<llmLock, status, body, rest, polled, sent, fault>>
         /\ UNCHANGED <<single, outgoing, order>>

\* App::process_event(ev)
process_event(ev) ==
    IF ev.tag = "Key"
    THEN CASE ev.code = "c" /\ ev.modifiers = "CONTROL" /\ ev.kind = "Press" ->
                /\ quit' = TRUE
                /\ UNCHANGED <<last_key, input, messages, notification, current_message, heard>>
                /\ UNCHANGED taskVars
           [] ev.code = "j" /\ ev.modifiers = "CONTROL" ->
                process_prompt(input)
           [] OTHER ->
                /\ input' = textarea_input(input, ev)
                /\ last_key' = Some(ev)
                /\ UNCHANGED <<quit, messages, notification, current_message, heard>>
                /\ UNCHANGED taskVars
    ELSE UNCHANGED <<appVars, taskVars>>

\* A delta arm that opens the turn under construction before it looks at
\* the content.
on_delta_insert(msg) ==
    /\ current_message' =
           Some((IF current_message = None THEN <<>> ELSE unwrap(current_message))
                    \o (IF msg.content # None THEN unwrap(msg.content) ELSE <<>>))
    /\ heard' = IF heard = None THEN heard ELSE Some(Append(unwrap(heard), msg))
    /\ UNCHANGED <<quit, last_key, input, messages, notification, taskVars>>

\* A delta arm that keeps the last fragment only.
on_delta_replace(msg) ==
    /\ current_message' = IF msg.content # None THEN msg.content ELSE current_message
    /\ heard' = IF heard = None THEN heard ELSE Some(Append(unwrap(heard), msg))
    /\ UNCHANGED <<quit, last_key, input, messages, notification, taskVars>>

\* The arms of the match in App::run for the events of a request.
on_delta(msg) ==
    /\ current_message' =
           IF msg.content # None
           THEN Some((IF current_message = None THEN <<>> ELSE unwrap(current_message))
                        \o unwrap(msg.content))
           ELSE current_message
    /\ heard' = IF heard = None THEN heard ELSE Some(Append(unwrap(heard), msg))
    /\ UNCHANGED <<quit, last_key, input, messages, notification, taskVars>>

on_end ==
    /\ messages' =
           IF current_message # None
           THEN Append(messages, assistant(unwrap(current_message)))
           ELSE messages
    /\ current_message' = None
    /\ heard' = None
    /\ UNCHANGED <<quit, last_key, input, notification, taskVars>>

on_start ==
    /\ current_message' = None
    /\ heard' = Some(<<>>)
    /\ UNCHANGED <<quit, last_key, input, messages, notification, taskVars>>

\* notification.get_or_insert(msg.clone()).push_str(&msg)
on_notification(text) ==
    /\ notification' =
           Some((IF notification = None THEN text ELSE unwrap(notification)) \o text)
    /\ UNCHANGED <<quit, last_key, input, messages, current_message, heard, taskVars>>

\* An Err arm that reports the error and goes round the loop again.
on_err_retry ==
    /\ nErr' = nErr + 1
    /\ UNCHANGED <<quit, last_key, input, messages, notification, current_message, heard, taskVars>>

\* The Err arm of the match in App::run.
on_err ==
    /\ quit' = TRUE
    /\ nErr' = nErr + 1
    /\ UNCHANGED <<last_key, input, messages, notification, current_message, heard, taskVars>>

\* A loop that takes no event while a spawned request is still running.
next_ready_blocking ==
    /\ chan # <<>> \/ senders = 0
    /\ \A t \in Tasks : ~LiveTask(t)

\* EventManager::next: the oldest event, or the error when the channel is
\* empty and every sender is dropped; it suspends otherwise.
next_ready == chan # <<>> \/ senders = 0

\* One iteration of the loop of App::run: next().await and the match.
run ==
    /\ Running
    /\ next_ready
    /\ UNCHANGED bgVars
    /\ IF chan # <<>>
       THEN LET ev == recv_item(chan).ev
            IN  /\ chan' = recv_rest(chan)
                /\ nDelivered' = nDelivered + 1
                /\ nPublished' = nPublished
                /\ nErr' = nErr
                /\ CASE ev.type = "TermEvent" -> process_event(unwrap(ev.arg))
                     [] ev.type = "LLMEventDelta" -> on_delta(unwrap(ev.arg))
                     [] ev.type = "LLMEventEnd" -> on_end
                     [] ev.type = "LLMEventStart" -> on_start
                     [] ev.type = "Notification" -> on_notification(unwrap(ev.arg))
                     [] OTHER -> UNCHANGED <<appVars, taskVars>>
       ELSE /\ on_err
            /\ UNCHANGED <<chan, nPublished, nDelivered>>

\* ------------------------------- app.rs spawned task and llm.rs request
\* A lock that is granted whoever holds it.
lock_free_always(holder) == TRUE

\* tokio Mutex::lock: granted when no guard is alive.
lock_free(holder) == holder = 0

\* Dropping the MutexGuard, at the end of the closure or while a panic
\* unwinds it.
guard_drop(holder) == 0

\* A task that goes on to the request without waiting for the guard.
task_lock_unguarded(t) ==
    /\ Running
    /\ pc[t] = "waitlock"
    /\ llmLock' = t
    /\ pc' = [pc EXCEPT ![t] = "locked"]
    /\ UNCHANGED <<busVars, bgVars, appVars, prompt, status, body, rest, polled, sent, fault>>
    /\ UNCHANGED <<single, history, outgoing, order>>

\* llm.lock().await
task_lock(t) ==
    /\ Running
    /\ pc[t] = "waitlock"
    /\ lock_free(llmLock)
    /\ llmLock' = t
    /\ pc' = [pc EXCEPT ![t] = "locked"]
    /\ UNCHANGED <<busVars, bgVars, appVars, prompt, status, body, rest, polled, sent, fault>>
    /\ UNCHANGED <<single, history, outgoing, order>>

\* A request that goes on to the network call without announcing itself.
request_start_silent(t) ==
    /\ Running
    /\ pc[t] = "locked"
    /\ pc' = [pc EXCEPT ![t] = "started"]
    /\ UNCHANGED <<busVars, bgVars, appVars, llmLock, prompt, status, body, rest, polled, sent, fault>>
    /\ UNCHANGED <<single, history, outgoing, order>>

\* tx.send(Event::LLMEventStart)
request_start(t) ==
    /\ Running
    /\ pc[t] = "locked"
    /\ Publish(<<LLMEventStart>>)
    /\ sent' = [sent EXCEPT ![t] = Append(@, LLMEventStart)]
    /\ order' = Append(order, t)
    /\ pc' = [pc EXCEPT ![t] = "started"]
    /\ UNCHANGED <<nDelivered, nErr, bgVars, appVars, llmLock, prompt, status, body, rest, polled, fault>>
    /\ UNCHANGED <<single, history, outgoing>>

\* The "messages" of the body json!({..}) that request builds: one user
\* message holding the prompt.
request_messages(text) == <<[role |-> "user", content |-> text]>>

\* cli.post(..).json(&data).send(): the request goes out
request_send(t) ==
    /\ Running
    /\ pc[t] = "started"
    /\ pc' = [pc EXCEPT ![t] = "awaiting"]
    /\ outgoing' = [outgoing EXCEPT ![t] = request_messages(prompt[t])]
    /\ UNCHANGED <<busVars, bgVars, appVars, llmLock, prompt, status, body, rest, polled, sent, fault>>
    /\ UNCHANGED <<single, history, order>>

\* A panic that leaves the guard alive.
Panic_holding(t, why) ==
    /\ pc' = [pc EXCEPT ![t] = "panicked"]
    /\ fault' = [fault EXCEPT ![t] = why]
    /\ rest' = [rest EXCEPT ![t] = <<>>]
    /\ UNCHANGED llmLock

\* The task ends in a panic: the closure unwinds, the response and the
\* guard are dropped.
Panic(t, why) ==
    /\ pc' = [pc EXCEPT ![t] = "panicked"]
    /\ fault' = [fault EXCEPT ![t] = why]
    /\ rest' = [rest EXCEPT ![t] = <<>>]
    /\ llmLock' = guard_drop(llmLock)

\* request returns Ok(()): the closure ends, the guard is dropped.
Return(t) ==
    /\ pc' = [pc EXCEPT ![t] = "done"]
    /\ llmLock' = guard_drop(llmLock)
    /\ UNCHANGED fault

\* .send().await.unwrap() on a transport error
request_send_err(t) ==
    /\ Running
    /\ pc[t] = "awaiting"
    /\ Panic(t, "send_error")
    /\ UNCHANGED <<busVars, bgVars, appVars, prompt, status, body, polled, sent>>
    /\ UNCHANGED <<single, history, outgoing, order>>

\* An error arm that returns without sending LLMEventEnd.
request_status_err_silent(t) ==
    /\ Running
    /\ pc[t] = "awaiting"
    /\ Return(t)
    /\ status' = [status EXCEPT ![t] = "error"]
    /\ UNCHANGED <<busVars, bgVars, appVars, prompt, body, rest, polled, sent>>
    /\ UNCHANGED <<single, history, outgoing, order>>

\* resp.error_for_status() is Err: send LLMEventEnd, return
request_status_err(t) ==
    /\ Running
    /\ pc[t] = "awaiting"
    /\ Publish(<<LLMEventEnd>>)
    /\ sent' = [sent EXCEPT ![t] = Append(@, LLMEventEnd)]
    /\ Return(t)
    /\ status' = [status EXCEPT ![t] = "error"]
    /\ order' = Append(order, t)
    /\ UNCHANGED <<nDelivered, nErr, bgVars, appVars, prompt, body, rest, polled>>
    /\ UNCHANGED <<single, history, outgoing>>

\* resp.error_for_status() is Ok: the body `b` will arrive in chunks
request_status_ok(t, b) ==
    /\ Running
    /\ pc[t] = "awaiting"
    /\ pc' = [pc EXCEPT ![t] = "reading"]
    /\ status' = [status EXCEPT ![t] = "ok"]
    /\ body' = [body EXCEPT ![t] = b]
    /\ rest' = [rest EXCEPT ![t] = b]
    /\ UNCHANGED <<busVars, bgVars, appVars, llmLock, prompt, polled, sent, fault>>
    /\ UNCHANGED <<single, history, outgoing, order>>

\* resp.chunk().await.unwrap() on a transport error
request_chunk_err(t) ==
    /\ Running
    /\ pc[t] = "reading"
    /\ Panic(t, "chunk_error")
    /\ polled' = [polled EXCEPT ![t] = TRUE]
    /\ UNCHANGED <<busVars, bgVars, appVars, prompt, status, body, sent>>
    /\ UNCHANGED <<single, history, outgoing, order>>

\* resp.chunk() is Some(bytes), the next n bytes of the body
request_chunk(t, n) ==
    /\ Running
    /\ pc[t] = "reading"
    /\ n \in 1..Len(rest[t])
    /\ LET r == handle_chunk(SubSeq(rest[t], 1, n))
       IN  /\ Publish(r.events)
           /\ sent' = [sent EXCEPT ![t] = @ \o r.events]
           /\ order' = order \o [i \in 1..Len(r.events) |-> t]
           /\ IF r.fault # NoFault
              THEN Panic(t, r.fault)
              ELSE /\ rest' = [rest EXCEPT ![t] = SubSeq(@, n + 1, Len(@))]
                   /\ UNCHANGED <<pc, fault, llmLock>>
    /\ polled' = [polled EXCEPT ![t] = TRUE]
    /\ single' = [single EXCEPT ![t] = ~polled[t]]
    /\ UNCHANGED <<nDelivered, nErr, bgVars, appVars, prompt, status, body, history, outgoing>>

\* resp.chunk() is None: the loop ends, request returns Ok(())
request_return(t) ==
    /\ Running
    /\ pc[t] = "reading"
    /\ rest[t] = <<>>
    /\ Return(t)
    /\ polled' = [polled EXCEPT ![t] = TRUE]
    /\ UNCHANGED <<busVars, bgVars, appVars, prompt, status, body, rest, sent>>
    /\ UNCHANGED <<single, history, outgoing, order>>

\* ----------------------------------------------------------------- bodies
Line(payload) == Marker \o <<" ">> \o payload \o <<"\n">>
LineDeltaHi == Line(to_wire(LLMResponse(<<DeltaHi>>)))
LineDeltaBang == Line(to_wire(LLMResponse(<<DeltaBang>>)))
LineDone == Line(DoneText)

\* The bodies of the whole-system specification.
SysBodies ==
    { LineDeltaHi \o LineDone,
      LineDeltaBang }

Producer ==
    \/ producer_tick
    \/ \E ev \in TermEvents : producer_term_event(ev)
    \/ producer_break

Request(t) ==
    \/ task_lock(t)
    \/ request_start(t)
    \/ request_send(t)
    \/ request_send_err(t)
    \/ request_status_err(t)
    \/ request_chunk_err(t)
    \/ request_return(t)

\* The chunk lengths of the whole-system specification: the transport cuts
\* the body after a line, inside a record (after a quote), or not at all.
SysCuts(r) == {n \in 1..Len(r) : n = Len(r) \/ r[n] = "\n" \/ r[n] = "'"}

Next ==
    \/ Producer
    \/ run
    \/ \E t \in Tasks : Request(t)
    \/ \E t \in Tasks : \E b \in SysBodies : request_status_ok(t, b)
    \/ \E t \in Tasks : \E n \in SysCuts(rest[t]) : request_chunk(t, n)

Spec == Init /\ [][Next]_vars

\* ------------------------------------------ the loop on a closed channel
\* One iteration of the loop of App::run in which next() returns the error:
\* rx.recv() has found the queue empty and reported the channel closed.  The
\* result is an input here: the sender that EventManager keeps for itself
\* stops the channel of Spec from ever reporting it.
run_closed ==
    /\ Running
    /\ chan = <<>>
    /\ on_err
    /\ UNCHANGED <<chan, nPublished, nDelivered, bgVars>>

LoopNext ==
    \/ Next
    \/ run_closed

LoopSpec == Init /\ [][LoopNext]_vars

\* ------------------------------------------------- the loop and notices
\* The sends on the channel that are neither the producer's nor a request's.
NoticesSent == nPublished - nKeys - nTicks - Len(order)

NoticeTexts == {<<"x">>, <<"y">>}

\* EventManager::send(event): the manager's own sender publishes the event.
\* No caller of it is in the sources; it is how a Notification reaches the
\* bus.
manager_send(event) ==
    /\ Running
    /\ NoticesSent < MaxNotices
    /\ Publish(<<event>>)
    /\ UNCHANGED <<nDelivered, nErr, bgVars, appVars, taskVars>>

\* The loop with ticks, plain keys and notices on the bus.
NoticeNext ==
    \/ producer_tick
    \/ producer_term_event(KeyA)
    \/ run
    \/ \E text \in NoticeTexts : manager_send(Notification(text))

NoticeSpec == Init /\ [][NoticeNext]_vars

\* ------------------------------------------- one invocation, every cut
\* The lines a response body is made of: records, the terminator, and
\* lines that are no record.
LineZero == Line(to_wire(LLMResponse(<<>>)))
LineBad == Line(<<"{", "c", "d", "'", "H">>)     \* truncated JSON
LineBare == Marker \o <<"\n">>                   \* the marker and nothing else
LineBlank == <<"\n">>                            \* the blank line between records

DecodeLines ==
    {LineDeltaHi, LineDeltaBang, LineZero, LineDone, LineBad, LineBare, LineBlank}

DecodeBodies ==
    {Concat(ls) : ls \in UNION {[1..k -> DecodeLines] : k \in 0..MaxLines}}

\* The state after the keys "a" and Ctrl-J have been consumed: the first
\* prompt is submitted and its task spawned.
DecodeInit ==
    /\ chan = <<>>
    /\ nPublished = 2
    /\ nDelivered = 2
    /\ nErr = 0
    /\ bgAlive = TRUE
    /\ nKeys = 2
    /\ nTicks = 0
    /\ nSubmit = 1
    /\ quit = FALSE
    /\ last_key = Some(KeyA)
    /\ input = <<>>
    /\ messages = <<user(<<"a">>)>>
    /\ notification = None
    /\ current_message = None
    /\ heard = None
    /\ llmLock = 0
    /\ pc = [t \in Tasks |-> IF t = 1 THEN "waitlock" ELSE "idle"]
    /\ prompt = [t \in Tasks |-> IF t = 1 THEN <<"a">> ELSE <<>>]
    /\ status = [t \in Tasks |-> "none"]
    /\ body = [t \in Tasks |-> <<>>]
    /\ rest = [t \in Tasks |-> <<>>]
    /\ polled = [t \in Tasks |-> FALSE]
    /\ sent = [t \in Tasks |-> <<>>]
    /\ fault = [t \in Tasks |-> NoFault]
    /\ single = [t \in Tasks |-> FALSE]
    /\ history = [t \in Tasks |-> <<>>]
    /\ outgoing = [t \in Tasks |-> <<>>]
    /\ order = <<>>

\* The invocation alone, its events left in the channel: every body, cut
\* anywhere.
DecodeNext ==
    \/ \E t \in Tasks : Request(t)
    \/ \E t \in Tasks : \E b \in DecodeBodies : request_status_ok(t, b)
    \/ \E t \in Tasks : \E n \in 1..Len(rest[t]) : request_chunk(t, n)

DecodeSpec == DecodeInit /\ [][DecodeNext]_vars

\* ------------------------------------------- one record, every shape
\* Bodies of one line: each record of Records in turn.
ExtractBodies == {Line(to_wire(r)) : r \in Records}

ExtractNext ==
    \/ \E t \in Tasks : Request(t)
    \/ \E t \in Tasks : \E b \in ExtractBodies : request_status_ok(t, b)
    \/ \E t \in Tasks : \E n \in 1..Len(rest[t]) : request_chunk(t, n)

ExtractSpec == DecodeInit /\ [][ExtractNext]_vars

\* ------------------------------------------- the turns the loop assembles
LineDeltaEmpty == Line(to_wire(LLMResponse(<<DeltaEmpty>>)))
LineDeltaBlank == Line(to_wire(LLMResponse(<<DeltaBlank>>)))

\* Bodies of records with text, with empty text and without text, then the
\* terminator.
AssembleBodies ==
    {Concat(ls) \o LineDone :
        ls \in UNION {[1..k -> {LineDeltaHi, LineDeltaBang, LineDeltaEmpty, LineDeltaBlank}] :
                        k \in 0..(MaxLines - 1)}}

\* The loop and the invocation of the first prompt on these bodies, with
\* ticks and plain keys arriving in between.
AssembleNext ==
    \/ producer_tick
    \/ producer_term_event(KeyA)
    \/ run
    \/ \E t \in Tasks : Request(t)
    \/ \E t \in Tasks : \E b \in AssembleBodies : request_status_ok(t, b)
    \/ \E t \in Tasks : \E n \in SysCuts(rest[t]) : request_chunk(t, n)

AssembleSpec == DecodeInit /\ [][AssembleNext]_vars

\* ------------------------------------------------------------- fairness
\* The runtime schedules every spawned task, the Mutex grants the lock in
\* the order of the requests, and the remote end answers or fails.
Response(t) ==
    \/ request_send_err(t)
    \/ request_status_err(t)
    \/ \E b \in SysBodies : request_status_ok(t, b)

Chunk(t) ==
    \/ request_chunk_err(t)
    \/ request_return(t)
    \/ \E n \in SysCuts(rest[t]) : request_chunk(t, n)

Fairness ==
    \A t \in Tasks :
        /\ SF_vars(task_lock(t))
        /\ WF_vars(request_start(t))
        /\ WF_vars(request_send(t))
        /\ WF_vars(Response(t))
        /\ WF_vars(Chunk(t))

FairSpec == Init /\ [][Next]_vars /\ Fairness

\* ----------------------------------------------------------------- claims
IsDelta(e) == e.type = "LLMEventDelta"
TransportFaults == {"send_error", "chunk_error"}

\* Start, then deltas only, then End.
Framed(es) ==
    /\ Len(es) >= 2
    /\ es[1] = LLMEventStart
    /\ es[Len(es)] = LLMEventEnd
    /\ \A i \in 2..(Len(es) - 1) : IsDelta(es[i])

\* C1: every invocation that got a success status and returned has sent
\* exactly one LLMEventStart, then LLMEventDelta events only, then exactly
\* one LLMEventEnd, whatever the body and its chunks were.
C1_Framing ==
    \A t \in Tasks :
        (status[t] = "ok" /\ pc[t] = "done") => Framed(sent[t])

\* Bodies of one or more well-formed records followed by the terminator.
WellFormedBodies ==
    {Concat(ls) \o LineDone :
        ls \in UNION {[1..k -> {LineDeltaHi, LineDeltaBang}] : k \in 1..(MaxLines - 1)}}

\* C2: for a body of well-formed records followed by the terminator, the
\* events sent once the body has arrived, cut into chunks in any way, are
\* the events sent when it arrives as one chunk.
C2_ChunkInvariance ==
    \A t \in Tasks :
        (pc[t] = "done" /\ body[t] \in WellFormedBodies)
            => sent[t] = <<LLMEventStart>> \o handle_chunk(body[t]).events

\* From the grant of the lock to the end of the closure.
InFlight(t) == pc[t] \in {"locked", "started", "awaiting", "reading"}

\* C3: at most one invocation is between acquiring the shared client and
\* the end of its request, and it is the one that holds the lock; the
\* others wait or are over.
C3_MutualExclusion ==
    \A t \in Tasks :
        InFlight(t) =>
            /\ llmLock = t
            /\ \A u \in Tasks \ {t} : ~InFlight(u)

C3_Witness ==
    \E t \in Tasks : \E u \in Tasks :
        pc[t] = "reading" /\ polled[t] /\ pc[u] = "waitlock"

RECURSIVE SentBy(_)
SentBy(S) ==
    IF S = {} THEN 0
    ELSE LET t == CHOOSE x \in S : TRUE
         IN  Len(sent[t]) + SentBy(S \ {t})

\* C4: the channel holds, in the order of their sends, exactly the events
\* sent and not yet returned by next: none dropped, none twice, none out of
\* order; and the sends are those of the input events, the ticks and the
\* requests, so a drained channel has delivered N + M + the requests' events.
C4_LosslessFifo ==
    /\ nPublished = nKeys + nTicks + SentBy(Tasks)
    /\ nPublished = nDelivered + Len(chan)
    /\ \A i \in 1..Len(chan) : chan[i].seq = nDelivered + i

C4_Witness ==
    /\ nDelivered >= 2
    /\ Len(chan) >= 3
    /\ \E i \in 1..Len(chan) : \E j \in 1..Len(chan) : \E k \in 1..Len(chan) :
        /\ chan[i].ev = TickEvent
        /\ chan[j].ev.type = "TermEvent"
        /\ chan[k].ev = LLMEventStart

\* An End after the Start.
Ended(es) ==
    \E i \in 1..Len(es) : \E j \in (i + 1)..Len(es) :
        es[i] = LLMEventStart /\ es[j] = LLMEventEnd

\* C5: an invocation ended by a transport error (sending the request, or
\* reading a chunk) has sent an LLMEventEnd after its LLMEventStart.
C5_TransportErrorEndsTurn ==
    \A t \in Tasks : fault[t] \in TransportFaults => Ended(sent[t])

\* C6: an invocation that fails with a transport error leaves the lock
\* free of it, stops neither the control loop nor the background producer,
\* and a task waiting for the lock goes on to start its own request (unless
\* the user quits first).
C6_FailureNotFatal ==
    /\ [](\A t \in Tasks : fault[t] \in TransportFaults => llmLock # t)
    /\ [][(\E t \in Tasks : fault'[t] \in TransportFaults /\ fault[t] = NoFault)
            => (quit' = quit /\ bgAlive' = bgAlive /\ chan' = chan)]_vars
    /\ \A t \in Tasks :
        (pc[t] = "waitlock" /\ \E u \in Tasks : fault[u] \in TransportFaults)
            ~> (quit \/ Len(sent[t]) > 0)

C6_Witness ==
    \E t \in Tasks : \E u \in Tasks :
        /\ fault[u] \in TransportFaults
        /\ pc[t] = "awaiting"
        /\ ~quit
        /\ bgAlive

\* C7: once the background producer has stopped, the channel is drained and
\* no request is publishing, next() does not suspend: it returns the error.
C7_BusClosureReported ==
    (~quit /\ ~bgAlive /\ chan = <<>> /\ \A t \in Tasks : ~LiveTask(t))
        => next_ready

\* C8: a record with no choices never aborts the invocation.
C8_ZeroChoicesAbsorbed ==
    \A t \in Tasks : fault[t] # "assert_choices"

\* One well-formed record, one line that is no record, the terminator.
OneMalformedBodies ==
    {LineDeltaHi \o bad \o LineDone : bad \in {LineBad, LineBare}}

\* C9: a body of one well-formed record, one malformed line and the
\* terminator yields exactly one LLMEventDelta, then exactly one LLMEventEnd.
C9_MalformedTolerance ==
    \A t \in Tasks :
        (pc[t] = "done" /\ body[t] \in OneMalformedBodies)
            => sent[t] = <<LLMEventStart,
                           LLMEventDelta(Message(None, Some(TextHi))),
                           LLMEventEnd>>

\* C10: an invocation whose response has an error status has returned
\* having sent LLMEventStart and LLMEventEnd and nothing else, without
\* asking for a chunk of the body.
C10_ErrorStatus ==
    \A t \in Tasks :
        status[t] = "error" =>
            /\ pc[t] = "done"
            /\ sent[t] = <<LLMEventStart, LLMEventEnd>>
            /\ ~polled[t]
            /\ body[t] = <<>>

C10_Witness ==
    \E t \in Tasks : status[t] = "error" /\ pc[t] = "done" /\ llmLock # t

HasEnd(es) == \E i \in 1..Len(es) : es[i] = LLMEventEnd

\* C11: when chunk() reports the end of the body and the invocation returns,
\* it sends exactly one LLMEventEnd if it has sent none so far (no terminator
\* line was received), and nothing if it has already sent one.
C11_EndOnTransportEnd ==
    [][\A t \in Tasks :
          (pc[t] = "reading" /\ pc'[t] = "done")
              => sent'[t] = IF HasEnd(sent[t]) THEN sent[t]
                            ELSE Append(sent[t], LLMEventEnd)]_vars

\* A prefix of the text.
IsPrefix(a, b) == Len(a) <= Len(b) /\ SubSeq(b, 1, Len(a)) = a

\* C12: text that App::run has accumulated in current_message is never
\* discarded: a step of the loop keeps it as a prefix of current_message or
\* moves it, whole, into a new assistant turn at the end of messages.
C12_NoRetraction ==
    [][current_message # None =>
          \/ /\ current_message' # None
             /\ IsPrefix(unwrap(current_message), unwrap(current_message'))
          \/ /\ current_message' = None
             /\ messages' = Append(messages, assistant(unwrap(current_message)))]_vars

\* The HTTP request of the invocation has been sent.
RequestSent(t) ==
    \/ pc[t] \in {"awaiting", "reading"}
    \/ status[t] # "none"
    \/ fault[t] # NoFault

\* C13: an invocation sends its HTTP request only after it has published
\* LLMEventStart, its first event, whatever the outcome of the request:
\* the step that sends the request finds LLMEventStart already sent, and
\* every invocation whose request is out, answered or failed has it first.
C13_StartBeforeCall ==
    /\ [](\A t \in Tasks :
            RequestSent(t) => (Len(sent[t]) >= 1 /\ sent[t][1] = LLMEventStart))
    /\ [][\A t \in Tasks :
            (~RequestSent(t) /\ RequestSent(t)')
                => (sent[t] = <<LLMEventStart>> /\ order # <<>> /\ order[Len(order)] = t)]_vars

C13_Witness ==
    \E t \in Tasks : \E u \in Tasks :
        /\ fault[t] = "send_error" /\ sent[t] = <<LLMEventStart>>
        /\ status[u] = "ok" /\ Len(sent[u]) >= 2

\* C14: when next() returns the channel-closed error, App::run sets quit and
\* leaves its loop: the error is returned at most once, quit is set from
\* then on, and once quit is set next() is not called again.
C14_BusClosedTerminates ==
    /\ [](nErr <= 1 /\ (nErr = 1 => quit))
    /\ [][quit => (nErr' = nErr /\ nDelivered' = nDelivered /\ quit')]_vars

C14_Witness ==
    /\ nErr = 1
    /\ quit
    /\ nDelivered >= 1
    /\ ~bgAlive

Present(m) == m.role # None /\ m.content # None

\* C15: every entry of App::messages has its role and its content present;
\* the list only grows at its end, by the user turn of the submitted input or
\* by the assistant turn holding the text accumulated in current_message.
C15_NoAbsentContent ==
    /\ [](\A i \in 1..Len(messages) : Present(messages[i]))
    /\ [][messages' # messages =>
            /\ Len(messages') = Len(messages) + 1
            /\ SubSeq(messages', 1, Len(messages)) = messages
            /\ \/ messages'[Len(messages')] = user(input)
               \/ /\ current_message # None
                  /\ messages'[Len(messages')] = assistant(unwrap(current_message))]_vars

C15_Witness ==
    /\ \E i \in 1..Len(messages) : messages[i] = assistant(TextHi)
    /\ \E j \in 1..Len(messages) : messages[j].role = Some("user")
    /\ current_message # None

\* A turn as an object of the "messages" array.
turn_json(m) == [role |-> unwrap(m.role), content |-> unwrap(m.content)]

\* The turns of the conversation before the prompt, then the prompt as a
\* user turn.
HistoryThenPrompt(t) ==
    LET turns == Append(history[t], user(prompt[t]))
    IN  [i \in 1..Len(turns) |-> turn_json(turns[i])]

\* C16: the messages of the request body an invocation has sent are the
\* turns of the history, in order, followed by the prompt as a user turn.
C16_OutgoingMessages ==
    \A t \in Tasks : RequestSent(t) => outgoing[t] = HistoryThenPrompt(t)

RecordLines == {LineDeltaHi, LineDeltaBang}

\* The event a well-formed line stands for.
EventOf(line) ==
    IF line = LineDone THEN LLMEventEnd
    ELSE IF line = LineDeltaHi THEN LLMEventDelta(Message(None, Some(TextHi)))
    ELSE LLMEventDelta(Message(None, Some(TextBang)))

\* Sequences of well-formed lines with a record line after a terminator line.
TermThenRecords ==
    {ls \in UNION {[1..k -> RecordLines \cup {LineDone}] : k \in 2..MaxLines} :
        \E i \in 1..Len(ls) : \E j \in (i + 1)..Len(ls) :
            ls[i] = LineDone /\ ls[j] \in RecordLines}

\* C17: a chunk of well-formed lines in which record lines follow a
\* terminator line is scanned to its end: the invocation that received it as
\* its only chunk has sent one event per line, in the order of the lines, the
\* LLMEventDelta of the records after the terminator included.
C17_ScanPastTerminator ==
    \A t \in Tasks : \A ls \in TermThenRecords :
        (single[t] /\ fault[t] = NoFault /\ rest[t] = <<>> /\ body[t] = Concat(ls))
            => sent[t] = <<LLMEventStart>> \o [i \in 1..Len(ls) |-> EventOf(ls[i])]

C17_Witness ==
    \E t \in Tasks :
        /\ single[t]
        /\ fault[t] = NoFault
        /\ rest[t] = <<>>
        /\ body[t] = LineDeltaBang \o LineDone \o LineDeltaHi
        /\ sent[t] = <<LLMEventStart,
                       LLMEventDelta(Message(None, Some(TextBang))),
                       LLMEventEnd,
                       LLMEventDelta(Message(None, Some(TextHi)))>>

\* The invocation is suspended: on the lock, on the response headers or on
\* a chunk of the body.
Suspended(t) == pc[t] \in {"waitlock", "awaiting", "reading"}

\* C18: while an invocation is suspended, the control loop and the producer
\* are not: App::run can take the event at the head of the bus, and the
\* producer can publish a tick and a key.
C18_LoopNotBlocked ==
    (~quit /\ \E t \in Tasks : Suspended(t)) =>
        /\ chan # <<>> => ENABLED run
        /\ (bgAlive /\ nTicks < MaxTicks) => ENABLED producer_tick
        /\ (bgAlive /\ nKeys < MaxKeys) => ENABLED producer_term_event(KeyA)

C18_Witness ==
    \E t \in Tasks :
        /\ pc[t] = "reading"
        /\ input # <<>>
        /\ nTicks >= 1
        /\ chan # <<>>

\* The fragment of a record: the message of choice 0, else its delta.
Fragment(r) ==
    IF r.choices[1].message # None THEN r.choices[1].message ELSE r.choices[1].delta

\* C19: an invocation that received the line of a record with at least one
\* choice as its only chunk has sent, after LLMEventStart, exactly one
\* LLMEventDelta: the message of choice 0 if it has one, else its delta.
C19_FragmentOfChoiceZero ==
    \A t \in Tasks : \A r \in Records :
        (/\ single[t] /\ fault[t] \notin TransportFaults
         /\ rest[t] = <<>> /\ body[t] = Line(to_wire(r)) /\ Len(r.choices) >= 1)
            => /\ Fragment(r) # None
               /\ sent[t] = <<LLMEventStart, LLMEventDelta(unwrap(Fragment(r)))>>

\* C20: the request events on the bus are not interleaved: between two
\* events of one invocation there is no event of another, so every event of
\* one invocation is sent before the LLMEventStart of the next; and the
\* events each invocation has sent are as many as the bus counts for it.
C20_NoInterleaving ==
    /\ \A i \in 1..Len(order) : \A k \in (i + 1)..Len(order) :
          order[i] = order[k] => \A j \in i..k : order[j] = order[i]
    /\ \A t \in Tasks : Len(sent[t]) = Cardinality({i \in 1..Len(order) : order[i] = t})
    /\ \A t \in Tasks : Len(sent[t]) >= 1 => sent[t][1] = LLMEventStart

C20_Witness ==
    /\ \E i \in 1..Len(order) : \E j \in 1..Len(order) : order[i] # order[j]
    /\ \E i \in 1..Len(chan) : \E j \in (i + 1)..Len(chan) : \E k \in (j + 1)..Len(chan) :
          /\ chan[i].ev = LLMEventStart
          /\ chan[j].ev = TickEvent
          /\ IsDelta(chan[k].ev)

\* App::run takes the event `ev` in this step.
Consumes(ev) ==
    /\ chan # <<>>
    /\ recv_item(chan).ev = ev
    /\ nDelivered' = nDelivered + 1

\* The texts of the deltas that have content, in order.
RECURSIVE Contents(_)
Contents(ds) ==
    IF ds = <<>> THEN <<>>
    ELSE (IF Head(ds).content # None THEN <<unwrap(Head(ds).content)>> ELSE <<>>)
            \o Contents(Tail(ds))

\* The deltas consumed since the LLMEventStart of the turn.
HeardDeltas == IF heard = None THEN <<>> ELSE unwrap(heard)

\* C21: when App::run consumes the LLMEventEnd that follows LLMEventStart
\* and the deltas d1..dk, it appends one assistant turn whose content is the
\* concatenation of the contents of the deltas that have content, or no turn
\* if none has content; every LLMEventEnd leaves current_message absent and
\* appends at most one turn; and no other step appends an assistant turn.
C21_TurnAssembly ==
    /\ [][(Consumes(LLMEventEnd) /\ heard # None) =>
            messages' =
                IF Contents(HeardDeltas) = <<>> THEN messages
                ELSE Append(messages, assistant(Concat(Contents(HeardDeltas))))]_vars
    /\ [][Consumes(LLMEventEnd) =>
            /\ current_message' = None
            /\ Len(messages') <= Len(messages) + 1
            /\ SubSeq(messages', 1, Len(messages)) = messages]_vars
    /\ [][~Consumes(LLMEventEnd) =>
            \A i \in 1..Len(messages') :
                messages'[i].role = Some("assistant") =>
                    (i <= Len(messages) /\ messages[i] = messages'[i])]_vars

C21_Witness ==
    /\ current_message = None
    /\ heard = None
    /\ \E i \in 1..Len(messages) : messages[i] = assistant(TextHi \o TextBang)
    /\ nTicks >= 1
    /\ input # <<>>

\* The fragment of a record whose choice 0 has "delta":{}.
NoContent == Message(None, None)

\* C22: the record whose choice-0 delta is an empty object decodes and is
\* published as an LLMEventDelta (an invocation that received its line and
\* the terminator as its only chunk has sent Start, that delta, End), and
\* the step of App::run that consumes it leaves current_message and messages
\* as they were.
C22_EmptyDeltaNoOp ==
    /\ [](\A t \in Tasks :
            (/\ single[t] /\ fault[t] = NoFault /\ rest[t] = <<>>
             /\ body[t] = LineDeltaEmpty \o LineDone)
                => sent[t] = <<LLMEventStart, LLMEventDelta(NoContent), LLMEventEnd>>)
    /\ [][Consumes(LLMEventDelta(NoContent)) =>
            (current_message' = current_message /\ messages' = messages)]_vars

C22_Witness ==
    /\ heard = Some(<<NoContent>>)
    /\ current_message = None
    /\ \E t \in Tasks : single[t] /\ body[t] = LineDeltaEmpty \o LineDone

\* The tasks spawned by this step.
Spawned == {t \in Tasks : pc[t] = "idle" /\ pc'[t] # "idle"}

\* C23: the step of App::run that takes Ctrl-J calls process_prompt with the
\* text of the input.  With an empty text nothing changes: no turn, no task,
\* no event.  With a non-empty text one user turn holding it is appended to
\* messages, exactly one invocation is spawned, with that prompt and no event
\* sent yet, and the input is cleared; no request event is published by the
\* step.  No other step spawns an invocation.
C23_PromptSubmission ==
    /\ [][(Consumes(TermEvent(KeyCtrlJ)) /\ input = <<>>) =>
            /\ UNCHANGED <<appVars, taskVars>>
            /\ nPublished' = nPublished]_vars
    /\ [][(Consumes(TermEvent(KeyCtrlJ)) /\ input # <<>>) =>
            /\ messages' = Append(messages, user(input))
            /\ input' = <<>>
            /\ Cardinality(Spawned) = 1
            /\ \A t \in Spawned :
                  pc'[t] = "waitlock" /\ prompt'[t] = input /\ sent'[t] = <<>>
            /\ nPublished' = nPublished
            /\ order' = order]_vars
    /\ [][~Consumes(TermEvent(KeyCtrlJ)) => Spawned = {}]_vars

C23_Witness ==
    /\ nSubmit = 2
    /\ chan = <<>>
    /\ Cardinality({t \in Tasks : pc[t] # "idle"}) = 1
    /\ \E t \in Tasks : pc[t] = "waitlock" /\ messages = <<user(prompt[t])>> /\ input = <<>>

\* The stored notification text, empty when there is none.
NoticeText == IF notification = None THEN <<>> ELSE unwrap(notification)

\* C24: each Notification that App::run consumes adds its text once to the
\* end of the stored notification text, so that after n1..nk the stored
\* text is their concatenation (after the first Notification(t) it is t).
C24_NoticeAccumulation ==
    [][\A text \in NoticeTexts :
          Consumes(Notification(text)) => notification' = Some(NoticeText \o text)]_vars

====
